---- MODULE Spec2Model ----
(***************************************************************************)
(* The status flags and the register file of the SM83 processor core       *)
(* (crates/core/src/cpu/registers.rs).                                     *)
(*                                                                         *)
(* A Flags value is the record [raw |-> byte]; a Registers value is the    *)
(* record of its ten fields.  Three state machines drive the same pure     *)
(* operators:                                                              *)
(*   Spec       one register file under field writes, pair writes and      *)
(*              pair reads;                                                *)
(*   SpecFlags  one Flags value under the operators of the set algebra     *)
(*              and the debug rendering;                                   *)
(*   SpecEq     two register files that receive the same writes, except    *)
(*              that set_af may be given two different values.             *)
(***************************************************************************)
EXTENDS Integers, Sequences, FiniteSets, TLC

VARIABLES regs, regs2, op, arg, arg2, ret, steps, x, y, px, fop, sx, text

vars == <<regs, regs2, op, arg, arg2, ret, steps, x, y, px, fop, sx, text>>

regVars == <<regs, regs2, op, arg, arg2, ret, steps>>

flagVars == <<x, y, px, fop, sx, text>>

(***************************************************************************)
(* Bounds of the exploration.                                              *)
(***************************************************************************)
\* number of operations applied to a register file in one behaviour
MaxSteps == 2

\* number of sample bytes written to the 8-bit fields
NumBytes == 5

\* number of sample 16-bit values written to the pairs, pc and sp
NumWords == 6

\* number of sample right-hand operands of the flag operators
NumOperands == 9

(***************************************************************************)
(* Machine integers.                                                       *)
(***************************************************************************)
U8_MAX == 255

U8 == 0 .. U8_MAX

RECURSIVE BitAndN(_, _, _)
\* a & b on n-bit unsigned integers
BitAndN(a, b, n) ==
    IF n = 0 THEN 0
    ELSE (IF a % 2 = 1 /\ b % 2 = 1 THEN 1 ELSE 0)
         + 2 * BitAndN(a \div 2, b \div 2, n - 1)

RECURSIVE BitOrN(_, _, _)
\* a | b on n-bit unsigned integers
BitOrN(a, b, n) ==
    IF n = 0 THEN 0
    ELSE (IF a % 2 = 1 \/ b % 2 = 1 THEN 1 ELSE 0)
         + 2 * BitOrN(a \div 2, b \div 2, n - 1)

RECURSIVE BitXorN(_, _, _)
\* a ^ b on n-bit unsigned integers
BitXorN(a, b, n) ==
    IF n = 0 THEN 0
    ELSE (IF a % 2 # b % 2 THEN 1 ELSE 0)
         + 2 * BitXorN(a \div 2, b \div 2, n - 1)

\* u8 operators
And8(a, b) == BitAndN(a, b, 8)

Or8(a, b) == BitOrN(a, b, 8)

Xor8(a, b) == BitXorN(a, b, 8)

\* !a on u8
Not8(a) == U8_MAX - a

\* a >> k on u8
Shr8(a, k) == a \div (2 ^ k)

\* 1 << k on u8
Shl8(a, k) == (a * (2 ^ k)) % (U8_MAX + 1)

\* u16 & u16
And16(a, b) == BitAndN(a, b, 16)

\* u16::to_le_bytes: <<low byte, high byte>>
to_le_bytes(value) == <<value % 256, (value \div 256) % 256>>

\* u16::from_le_bytes: bytes[1] is the low byte, bytes[2] the high byte
from_le_bytes(bytes) == bytes[1] + 256 * bytes[2]

(***************************************************************************)
(* Flags.                                                                  *)
(***************************************************************************)
Flags == [raw : U8]

\* Flags::C, the carry flag
C == [raw |-> Shl8(1, 4)]

\* H given the bit of the carry flag
H_carry_bit == [raw |-> Shl8(1, 4)]

\* Flags::H, the half-carry flag
H == [raw |-> Shl8(1, 5)]

\* Flags::N, the subtraction flag
N == [raw |-> Shl8(1, 6)]

\* Flags::Z, the zero flag
Z == [raw |-> Shl8(1, 7)]

\* Flags::EMPTY
EMPTY == [raw |-> 0]

\* from_bits that clears bits 0-3 on construction
from_bits_masked(bits) == [raw |-> And8(bits, 240)]

\* Flags::from_bits
from_bits(bits) == [raw |-> bits]

\* the mask 0b1111_0000 of into_bits
FLAG_MASK == 240

\* into_bits without the mask
into_bits_unmasked(self) == self.raw

\* Flags::into_bits
into_bits(self) == And8(self.raw, FLAG_MASK)

\* the text of the arm that Debug::fmt must never take
Unreachable == "unreachable!()"

\* the arms of the match in <Flags as Debug>::fmt
FmtArm(m) ==
    CASE m = 0 -> "<empty>"
      [] m = 1 -> "C"
      [] m = 2 -> "H"
      [] m = 3 -> "H | C"
      [] m = 4 -> "N"
      [] m = 5 -> "N | C"
      [] m = 6 -> "N | H"
      [] m = 7 -> "N | H | C"
      [] m = 8 -> "Z"
      [] m = 9 -> "Z | C"
      [] m = 10 -> "Z | H"
      [] m = 11 -> "Z | H | C"
      [] m = 12 -> "Z | N"
      [] m = 13 -> "Z | N | C"
      [] m = 14 -> "Z | N | H"
      [] m = 15 -> "Z | N | H | C"
      [] OTHER -> Unreachable

\* fmt matching on the low nibble of the stored byte
fmt_low_nibble(self) == FmtArm(And8(self.raw, 15))

\* <Flags as Debug>::fmt: the text written for self
fmt(self) == FmtArm(Shr8(self.raw, 4))

\* <Flags as BitAnd>::bitand
bitand(self, rhs) == [raw |-> And8(self.raw, rhs.raw)]

\* <Flags as BitAndAssign>::bitand_assign: the new *self
bitand_assign(self, rhs) == [self EXCEPT !.raw = And8(@, rhs.raw)]

\* <Flags as BitOr>::bitor
bitor(self, rhs) == [raw |-> Or8(self.raw, rhs.raw)]

\* <Flags as BitOrAssign>::bitor_assign: the new *self
bitor_assign(self, rhs) == [self EXCEPT !.raw = Or8(@, rhs.raw)]

\* bitxor computing the union
bitxor_as_or(self, rhs) == [raw |-> Or8(self.raw, rhs.raw)]

\* <Flags as BitXor>::bitxor
bitxor(self, rhs) == [raw |-> Xor8(self.raw, rhs.raw)]

\* <Flags as BitXorAssign>::bitxor_assign: the new *self
bitxor_assign(self, rhs) == [self EXCEPT !.raw = Xor8(@, rhs.raw)]

\* not that complements the four flag bits only
not_flag_bits_only(self) == [raw |-> Xor8(self.raw, 240)]

\* <Flags as Not>::not
not(self) == [raw |-> Not8(self.raw)]

\* derived PartialEq for Flags: compares the stored byte
FlagsEq(l, r) == l.raw = r.raw

(***************************************************************************)
(* Registers.                                                              *)
(***************************************************************************)
\* the 8-bit fields other than f, in declaration order
ByteFields == {"a", "c", "b", "e", "d", "l", "h"}

\* the 16-bit fields
WordFields == {"pc", "sp"}

\* Registers::set_af: the register file after the call
set_af(self, value) ==
    LET fa == to_le_bytes(value)
    IN [self EXCEPT !.f = from_bits(fa[1]), !.a = fa[2]]

\* af composing the stored byte of f instead of the exported one
af_stored_byte(self) == from_le_bytes(<<self.f.raw, self.a>>)

\* Registers::af
af(self) == from_le_bytes(<<into_bits(self.f), self.a>>)

\* Registers::set_bc
set_bc(self, value) ==
    LET cb == to_le_bytes(value)
    IN [self EXCEPT !.c = cb[1], !.b = cb[2]]

\* bc with the two bytes in the wrong order
bc_swapped(self) == from_le_bytes(<<self.b, self.c>>)

\* Registers::bc
bc(self) == from_le_bytes(<<self.c, self.b>>)

\* set_de storing the low byte in c instead of e
set_de_into_c(self, value) ==
    LET ed == to_le_bytes(value)
    IN [self EXCEPT !.c = ed[1], !.d = ed[2]]

\* Registers::set_de
set_de(self, value) ==
    LET ed == to_le_bytes(value)
    IN [self EXCEPT !.e = ed[1], !.d = ed[2]]

\* Registers::de
de(self) == from_le_bytes(<<self.e, self.d>>)

\* Registers::set_hl
set_hl(self, value) ==
    LET lh == to_le_bytes(value)
    IN [self EXCEPT !.l = lh[1], !.h = lh[2]]

\* hl with the two bytes in the wrong order
hl_swapped(self) == from_le_bytes(<<self.h, self.l>>)

\* Registers::hl
hl(self) == from_le_bytes(<<self.l, self.h>>)

\* derived PartialEq for Registers: field by field, f through FlagsEq
RegistersEq(l, r) ==
    /\ FlagsEq(l.f, r.f)
    /\ \A fld \in ByteFields \cup WordFields : l[fld] = r[fld]

(***************************************************************************)
(* Sample inputs.                                                          *)
(***************************************************************************)
\* bytes with zero and non-zero low and high nibbles
SampleBytes == <<0, 159, 52, 255, 15, 18, 240, 1, 165, 90>>

Bytes == {SampleBytes[k] : k \in 1 .. NumBytes}

\* 0x1234, 0x123B, 0xFFFF, 0x0190, 0xAB0F, 0x00F0, 0x8001, 0x1274
SampleWords == <<4660, 4667, 65535, 400, 43791, 240, 32769, 4724>>

Words == {SampleWords[k] : k \in 1 .. NumWords}

\* right-hand operands: the five named constants and raw bytes
SampleOperands ==
    <<Z, C, H, N, EMPTY, from_bits(151), from_bits(15), from_bits(255),
      from_bits(108), from_bits(58), from_bits(193)>>

Operands == {SampleOperands[k] : k \in 1 .. NumOperands}

\* a = 0x01, f = Z | C, every other field zero
ScenarioRegs ==
    [f |-> bitor(Z, C), a |-> 1, c |-> 0, b |-> 0, e |-> 0, d |-> 0,
     l |-> 0, h |-> 0, pc |-> 0, sp |-> 0]

\* every field holds a different value
DistinctRegs ==
    [f |-> from_bits(90), a |-> 161, c |-> 194, b |-> 179, e |-> 228,
     d |-> 213, l |-> 22, h |-> 135, pc |-> 256, sp |-> 65534]

InitRegs == {ScenarioRegs, DistinctRegs}

\* the value of ret after an operation that returns nothing
Unit == -1

\* the value of arg when no argument is on record
NoArg == -1

(***************************************************************************)
(* Spec: one register file.  op names the last operation (a field name    *)
(* for a direct field write), arg its argument, ret its result.           *)
(***************************************************************************)
IdleFlags ==
    /\ x = EMPTY
    /\ y = EMPTY
    /\ px = EMPTY
    /\ fop = "idle"
    /\ sx = {}
    /\ text = ""

Init ==
    /\ regs \in InitRegs
    /\ regs2 = regs
    /\ op = "new"
    /\ arg = 0
    /\ arg2 = 0
    /\ ret = Unit
    /\ steps = 0
    /\ IdleFlags

\* bookkeeping shared by the operations on the single register file
Did(name, value, result) ==
    /\ steps < MaxSteps
    /\ steps' = steps + 1
    /\ op' = name
    /\ arg' = value
    /\ ret' = result
    /\ UNCHANGED <<regs2, arg2>>
    /\ UNCHANGED flagVars

SetAf(value) ==
    /\ regs' = set_af(regs, value)
    /\ Did("set_af", value, Unit)

Af ==
    /\ UNCHANGED regs
    /\ Did("af", 0, af(regs))

SetBc(value) ==
    /\ regs' = set_bc(regs, value)
    /\ Did("set_bc", value, Unit)

Bc ==
    /\ UNCHANGED regs
    /\ Did("bc", 0, bc(regs))

SetDe(value) ==
    /\ regs' = set_de(regs, value)
    /\ Did("set_de", value, Unit)

De ==
    /\ UNCHANGED regs
    /\ Did("de", 0, de(regs))

SetHl(value) ==
    /\ regs' = set_hl(regs, value)
    /\ Did("set_hl", value, Unit)

Hl ==
    /\ UNCHANGED regs
    /\ Did("hl", 0, hl(regs))

\* regs.<fld> = value for one of the public 8-bit fields
WriteByte(fld, value) ==
    /\ regs' = [regs EXCEPT ![fld] = value]
    /\ Did(fld, value, Unit)

\* regs.f = Flags::from_bits(bits)
WriteF(bits) ==
    /\ regs' = [regs EXCEPT !.f = from_bits(bits)]
    /\ Did("f", bits, Unit)

\* regs.pc = value or regs.sp = value
WriteWord(fld, value) ==
    /\ regs' = [regs EXCEPT ![fld] = value]
    /\ Did(fld, value, Unit)

Next ==
    \/ \E value \in Words : SetAf(value)
    \/ Af
    \/ \E value \in Words : SetBc(value)
    \/ Bc
    \/ \E value \in Words : SetDe(value)
    \/ De
    \/ \E value \in Words : SetHl(value)
    \/ Hl
    \/ \E fld \in ByteFields, value \in Bytes : WriteByte(fld, value)
    \/ \E bits \in Bytes : WriteF(bits)
    \/ \E fld \in WordFields, value \in Words : WriteWord(fld, value)

Spec == Init /\ [][Next]_vars

(***************************************************************************)
(* SpecFlags: one Flags value x, built by from_bits from any byte.  fop    *)
(* names the last operation, y its right-hand operand, px the value of x   *)
(* before it, ret the byte returned by into_bits, text the debug text.     *)
(* arg is the byte x was built from, as long as no operator has replaced   *)
(* x.  sx is the same computation carried out on sets of flag names.       *)
(***************************************************************************)
FlagNames == <<"Z", "N", "H", "C">>

\* bit position of each flag
FlagBit == [n \in {"Z", "N", "H", "C"} |-> CASE n = "Z" -> 7 [] n = "N" -> 6
                                              [] n = "H" -> 5 [] n = "C" -> 4]

AllFlags == {"Z", "N", "H", "C"}

\* the flags whose bit is set in a byte
Members(byte) == {n \in AllFlags : (byte \div (2 ^ FlagBit[n])) % 2 = 1}

IdleRegs ==
    /\ regs = ScenarioRegs
    /\ regs2 = ScenarioRegs
    /\ op = "idle"
    /\ arg2 = 0
    /\ steps = 0

InitFlags ==
    /\ \E bits \in U8 :
          /\ x = from_bits(bits)
          /\ arg = bits
          /\ sx = Members(bits)
    /\ y = EMPTY
    /\ px = EMPTY
    /\ fop = "from_bits"
    /\ ret = Unit
    /\ text = ""
    /\ IdleRegs

\* bookkeeping of an operator that replaces x
Replaced(name, rhs, shadow) ==
    /\ fop' = name
    /\ y' = rhs
    /\ px' = x
    /\ sx' = shadow
    /\ arg' = NoArg
    /\ ret' = Unit
    /\ text' = ""
    /\ UNCHANGED <<regs, regs2, op, arg2, steps>>

\* x = x & rhs
BitAnd(rhs) ==
    /\ x' = bitand(x, rhs)
    /\ Replaced("bitand", rhs, sx \cap Members(rhs.raw))

\* x &= rhs
BitAndAssign(rhs) ==
    /\ x' = bitand_assign(x, rhs)
    /\ Replaced("bitand_assign", rhs, sx \cap Members(rhs.raw))

\* x = x | rhs
BitOr(rhs) ==
    /\ x' = bitor(x, rhs)
    /\ Replaced("bitor", rhs, sx \cup Members(rhs.raw))

\* x |= rhs
BitOrAssign(rhs) ==
    /\ x' = bitor_assign(x, rhs)
    /\ Replaced("bitor_assign", rhs, sx \cup Members(rhs.raw))

\* x = x ^ rhs
BitXor(rhs) ==
    /\ x' = bitxor(x, rhs)
    /\ Replaced("bitxor", rhs,
                (sx \ Members(rhs.raw)) \cup (Members(rhs.raw) \ sx))

\* x ^= rhs
BitXorAssign(rhs) ==
    /\ x' = bitxor_assign(x, rhs)
    /\ Replaced("bitxor_assign", rhs,
                (sx \ Members(rhs.raw)) \cup (Members(rhs.raw) \ sx))

\* x = !x
Not ==
    /\ x' = not(x)
    /\ Replaced("not", y, AllFlags \ sx)

\* x.into_bits()
IntoBits ==
    /\ fop' = "into_bits"
    /\ ret' = into_bits(x)
    /\ text' = ""
    /\ UNCHANGED <<x, y, px, sx, arg>>
    /\ UNCHANGED <<regs, regs2, op, arg2, steps>>

\* format!("{:?}", x)
Fmt ==
    /\ fop' = "fmt"
    /\ text' = fmt(x)
    /\ ret' = Unit
    /\ UNCHANGED <<x, y, px, sx, arg>>
    /\ UNCHANGED <<regs, regs2, op, arg2, steps>>

NextFlags ==
    \/ \E rhs \in Operands : BitAnd(rhs)
    \/ \E rhs \in Operands : BitAndAssign(rhs)
    \/ \E rhs \in Operands : BitOr(rhs)
    \/ \E rhs \in Operands : BitOrAssign(rhs)
    \/ \E rhs \in Operands : BitXor(rhs)
    \/ \E rhs \in Operands : BitXorAssign(rhs)
    \/ Not
    \/ IntoBits
    \/ Fmt

SpecFlags == InitFlags /\ [][NextFlags]_vars

(***************************************************************************)
(* SpecEq: two register files that start equal and receive the same       *)
(* writes, except that set_af is given value on the first and value2 on    *)
(* the second.                                                             *)
(***************************************************************************)
InitEq ==
    /\ regs \in InitRegs
    /\ regs2 = regs
    /\ op = "new"
    /\ arg = 0
    /\ arg2 = 0
    /\ ret = Unit
    /\ steps = 0
    /\ IdleFlags

DidBoth(name, value, value2) ==
    /\ steps < MaxSteps
    /\ steps' = steps + 1
    /\ op' = name
    /\ arg' = value
    /\ arg2' = value2
    /\ UNCHANGED ret
    /\ UNCHANGED flagVars

SetAfBoth(value, value2) ==
    /\ regs' = set_af(regs, value)
    /\ regs2' = set_af(regs2, value2)
    /\ DidBoth("set_af", value, value2)

SetBcBoth(value) ==
    /\ regs' = set_bc(regs, value)
    /\ regs2' = set_bc(regs2, value)
    /\ DidBoth("set_bc", value, value)

SetDeBoth(value) ==
    /\ regs' = set_de(regs, value)
    /\ regs2' = set_de(regs2, value)
    /\ DidBoth("set_de", value, value)

SetHlBoth(value) ==
    /\ regs' = set_hl(regs, value)
    /\ regs2' = set_hl(regs2, value)
    /\ DidBoth("set_hl", value, value)

WriteBoth(fld, value) ==
    /\ regs' = [regs EXCEPT ![fld] = value]
    /\ regs2' = [regs2 EXCEPT ![fld] = value]
    /\ DidBoth(fld, value, value)

NextEq ==
    \/ \E value \in Words, value2 \in Words : SetAfBoth(value, value2)
    \/ \E value \in Words : SetBcBoth(value)
    \/ \E value \in Words : SetDeBoth(value)
    \/ \E value \in Words : SetHlBoth(value)
    \/ \E fld \in ByteFields, value \in Bytes : WriteBoth(fld, value)
    \/ \E fld \in WordFields, value \in Words : WriteBoth(fld, value)

SpecEq == InitEq /\ [][NextEq]_vars

(***************************************************************************)
(* Properties of Flags, checked under SpecFlags.                           *)
(***************************************************************************)
\* the byte with exactly the bits of a set of flags
RECURSIVE ByteOf(_)
ByteOf(set) ==
    IF set = {} THEN 0
    ELSE LET n == CHOOSE m \in set : TRUE
         IN 2 ^ FlagBit[n] + ByteOf(set \ {n})

RECURSIVE Join(_)
\* the names of a sequence joined by " | "
Join(names) ==
    IF Len(names) = 0 THEN ""
    ELSE IF Len(names) = 1 THEN names[1]
    ELSE names[1] \o " | " \o Join(Tail(names))

\* the names of a set of flags in the order Z, N, H, C, or "<empty>"
Rendered(set) ==
    IF set = {} THEN "<empty>"
    ELSE Join(SelectSeq(FlagNames, LAMBDA n : n \in set))

\* C1: for every byte b, from_bits(b) is a Flags value and
\* from_bits(b).into_bits() is b with bits 0-3 cleared (b & 0xF0).
C1_RoundTrip ==
    /\ x \in Flags
    /\ (fop = "into_bits" /\ arg # NoArg) => ret = arg - (arg % 16)

C1_Witness == fop = "into_bits" /\ arg = 159 /\ x.raw = 159 /\ ret = 144

\* C5: the exported byte of x & y, x | y, x ^ y is the AND, OR, XOR of the
\* exported bytes of x and y, and two NOTs in a row give back the exported
\* byte of the value they started from.
C5_SetAlgebra ==
    [][ /\ fop' = "bitand" =>
             into_bits(x') = And8(into_bits(x), into_bits(y'))
        /\ fop' = "bitor" =>
             into_bits(x') = Or8(into_bits(x), into_bits(y'))
        /\ fop' = "bitxor" =>
             into_bits(x') = Xor8(into_bits(x), into_bits(y'))
        /\ (fop = "not" /\ fop' = "not") =>
             into_bits(x') = into_bits(px) ]_vars

C5_Witness ==
    /\ fop = "bitxor"
    /\ px.raw = 159
    /\ y.raw = 108
    /\ x.raw = 243
    /\ into_bits(x) = 240

\* C7: C, H, N, Z export 0x10, 0x20, 0x40, 0x80 and EMPTY exports 0; the AND
\* of two distinct constants among C, H, N, Z exports 0; the OR of all four
\* exports 0xF0.
C7_Constants ==
    /\ into_bits(C) = 16
    /\ into_bits(H) = 32
    /\ into_bits(N) = 64
    /\ into_bits(Z) = 128
    /\ into_bits(EMPTY) = 0
    /\ C.raw = 16 /\ H.raw = 32 /\ N.raw = 64 /\ Z.raw = 128 /\ EMPTY.raw = 0
    /\ (fop = "bitand" /\ px \in {C, H, N, Z} /\ y \in {C, H, N, Z} /\ px # y)
          => into_bits(x) = 0
    /\ (fop = "bitor" /\ y = Z /\ px = bitor(bitor(C, H), N))
          => into_bits(x) = 240

C7_Witness ==
    /\ fop = "bitor"
    /\ y = Z
    /\ px = bitor(bitor(C, H), N)
    /\ px.raw = 112
    /\ x.raw = 240

\* C8: the debug text of every Flags value is never the unreachable arm, is
\* "<empty>" when none of bits 4-7 is set and otherwise the names of the set
\* flags in the order Z, N, H, C joined by " | "; bits 0-3 do not affect it.
C8_DebugText ==
    fop = "fmt" =>
        /\ text # Unreachable
        /\ text = Rendered(Members(x.raw))
        /\ text = fmt(from_bits(x.raw - (x.raw % 16)))
        /\ x = Z => text = "Z"
        /\ x = bitor(Z, C) => text = "Z | C"
        /\ x = EMPTY => text = "<empty>"

C8_Witness == fop = "fmt" /\ x.raw = 159 /\ text = "Z | C"

\* C9: !x stores the 8-bit complement of the stored byte of x and exports
\* 0xF0 ^ x.into_bits(); after any sequence of the operators the exported
\* byte has bits 0-3 clear and is the byte of the set of flags obtained by
\* the same sequence of set operations on the exported operands.
C9_FourBitAlgebra ==
    /\ into_bits(x) % 16 = 0
    /\ into_bits(x) = ByteOf(sx)
    /\ fop = "not" =>
          /\ x.raw = 255 - px.raw
          /\ into_bits(x) = 240 - into_bits(px)

C9_Witness ==
    /\ fop = "not"
    /\ px.raw = 144
    /\ x.raw = 111
    /\ x.raw % 16 # 0
    /\ sx = {"N", "H"}

(***************************************************************************)
(* Properties of Registers, checked under Spec.                            *)
(***************************************************************************)
AllFields == ByteFields \cup WordFields \cup {"f"}

\* the step changes no field outside flds
Frame(flds) == \A fld \in AllFields \ flds : regs'[fld] = regs[fld]

\* C2: af() called right after set_af(v) returns v with bits 0-3 cleared.
C2_AfRoundTrip ==
    [][ (op = "set_af" /\ op' = "af") => ret' = arg - (arg % 16) ]_vars

C2_Witness ==
    op = "af" /\ steps = 2 /\ regs.f.raw = 59 /\ regs.a = 18 /\ ret = 4656

\* C3: bc(), de(), hl() called right after set_bc(v), set_de(v), set_hl(v)
\* return exactly v.
C3_PairRoundTrip ==
    [][ /\ (op = "set_bc" /\ op' = "bc") => ret' = arg
        /\ (op = "set_de" /\ op' = "de") => ret' = arg
        /\ (op = "set_hl" /\ op' = "hl") => ret' = arg ]_vars

C3_Witness ==
    op = "hl" /\ steps = 2 /\ regs.h = 171 /\ regs.l = 15 /\ ret = 43791

\* C4: a pair write stores the high byte of the value in the first-named
\* field and the low byte in the second (through from_bits for f) and
\* changes no other field; a direct write to one field changes no other.
C4_FieldIsolation ==
    [][ /\ op' = "set_af" =>
             /\ regs'.a = arg' \div 256
             /\ regs'.f = from_bits(arg' % 256)
             /\ Frame({"a", "f"})
        /\ op' = "set_bc" =>
             /\ regs'.b = arg' \div 256
             /\ regs'.c = arg' % 256
             /\ Frame({"b", "c"})
        /\ op' = "set_de" =>
             /\ regs'.d = arg' \div 256
             /\ regs'.e = arg' % 256
             /\ Frame({"d", "e"})
        /\ op' = "set_hl" =>
             /\ regs'.h = arg' \div 256
             /\ regs'.l = arg' % 256
             /\ Frame({"h", "l"})
        /\ op' \in AllFields => Frame({op'}) ]_vars

C4_Witness ==
    /\ op = "set_de"
    /\ arg = 4660
    /\ regs = [DistinctRegs EXCEPT !.d = 18, !.e = 52]

\* C6: every pair read returns first-named register * 256 + second (the
\* exported byte for f) and changes no field; af has bits 0-3 clear in every
\* state; with a = 0x01 and f = Z | C af() is 0x0190; after set_af(0x1234)
\* a is 0x12 and f exports 0x30.
C6_PairViews ==
    [][ /\ op' = "af" =>
             /\ ret' = regs.a * 256 + (regs.f.raw - (regs.f.raw % 16))
             /\ regs' = regs
        /\ op' = "bc" => (ret' = regs.b * 256 + regs.c /\ regs' = regs)
        /\ op' = "de" => (ret' = regs.d * 256 + regs.e /\ regs' = regs)
        /\ op' = "hl" => (ret' = regs.h * 256 + regs.l /\ regs' = regs)
        /\ af(regs') % 16 = 0
        /\ (op' = "af" /\ regs.a = 1 /\ regs.f = bitor(Z, C)) => ret' = 400
        /\ (op' = "set_af" /\ arg' = 4660) =>
             (regs'.a = 18 /\ into_bits(regs'.f) = 48) ]_vars

C6_Witness == op = "af" /\ regs = ScenarioRegs /\ ret = 400

(***************************************************************************)
(* Equality of register files, checked under SpecEq.                       *)
(***************************************************************************)
\* C10: set_af keeps all 8 bits of the low byte in f; two Flags built from
\* bytes are equal only when the bytes are equal; two register files that
\* differ only by set_af(v) and set_af(w) with v # w and equal upper 12 bits
\* agree on af(), on the exported flags and on the debug text, yet are not
\* equal.
C10_StoredByteEquality ==
    op = "set_af" =>
        /\ regs.f.raw = arg % 256
        /\ regs2.f.raw = arg2 % 256
        /\ FlagsEq(regs.f, regs2.f) => (arg % 256 = arg2 % 256)
        /\ (arg - (arg % 16) = arg2 - (arg2 % 16) /\ arg # arg2) =>
              /\ af(regs) = af(regs2)
              /\ into_bits(regs.f) = into_bits(regs2.f)
              /\ fmt(regs.f) = fmt(regs2.f)
              /\ ~FlagsEq(regs.f, regs2.f)
              /\ ~RegistersEq(regs, regs2)

C10_Witness ==
    /\ op = "set_af"
    /\ arg = 4660
    /\ arg2 = 4667
    /\ af(regs) = 4656
    /\ af(regs2) = 4656
    /\ \A fld \in ByteFields \cup WordFields : regs[fld] = regs2[fld]
    /\ ~RegistersEq(regs, regs2)

====
